---- MODULE Spec2Model ----
(***************************************************************************)
(* The ImageCarousel widget of acm-photobook as a state machine.           *)
(*                                                                         *)
(* The repository holds three versions of the component:                   *)
(*   Continuous   - src/unnamed/part_001: continuous commit, captions,     *)
(*                  maxOffset derived from the item count;                 *)
(*   Threshold    - src/unnamed/part_002, lines 1-212: threshold commit;   *)
(*   ContinuousV1 - src/unnamed/part_002, lines 213-397: continuous commit,*)
(*                  no captions, MAX_OFFSET fixed.                         *)
(* The variable `component` selects the version; the React state hooks are *)
(* the variables; every event handler is one action, which includes the    *)
(* re-render and the effect flush React performs after the handler.        *)
(*                                                                         *)
(* Numbers: pointer positions are integers (clientX of a mouse event).     *)
(* Values that the code divides by SENSITIVITY are kept multiplied by      *)
(* SENSITIVITY, so that the arithmetic stays exact.                        *)
(***************************************************************************)
EXTENDS Integers, FiniteSets, Sequences, TLC

\* ------------------------------------------------------------------ bounds
\* Largest item count (images.length) the model mounts the widget with.
MaxN == 7
\* Pointer positions go up to 100 * MaxPos pixels.
MaxPos == 16
\* Largest item count of the navigation-only specification SpecNav.
MaxNavN == 10
\* Longest run of consecutive next (or previous) requests that is tracked.
MaxK == 12

\* ------------------------------------------------------- program constants
SENSITIVITY == 200
threshold == 50
MAX_OFFSET == 2
\* Scale parameters of gaussian, in thousandths.
MIN_SCALE == 500
MAX_SCALE == 1000
SCALE_SPREAD == 500

Continuous == "continuous"
Threshold == "threshold"
ContinuousV1 == "continuous_v1"
Components == {Continuous, Threshold, ContinuousV1}

\* clientX values the pointer events carry: a few close to both ends (so that
\* drags of 10, 40, 50, 60 px occur in both directions) and a coarse grid.
Positions ==
    {10 * k : k \in {1, 4, 5, 6}} \cup {100 * k : k \in 0..MaxPos}
        \cup {100 * MaxPos - 10 * k : k \in {1, 4, 5, 6}}

\* clientX values at which a drag starts: the two ends of the range.
StartPositions == {0, 100 * MaxPos}

VARIABLES
    component,      \* which version of ImageCarousel is mounted
    totalImages,    \* images.length (the prop; fixed for a run)
    phase,          \* "unmounted" | "mounted" | "crashed" (render threw)
    currentIndex,   \* useState(0)
    indexIsNaN,     \* currentIndex holds NaN (a remainder by zero)
    isDragging,     \* useState(false)
    startX,         \* useState(0)
    currentX,       \* useState(0)
    dragOffset,     \* useState(0), Threshold only
    listeners,      \* document mousemove/mouseup listeners are attached
    lastEvent,      \* history: the handler that ran last
    indexAtStart,   \* history: currentIndex when handleStart last ran
    lastDiff,       \* history: currentX - startX seen by the last handleEnd
    viaDocument,    \* history: the last handler ran from a document listener only
    navBase,        \* history: currentIndex before the current run of next/previous
    navCount,       \* history: +k after k consecutive next, -k after k previous
    lastArg,        \* history: the item index the last click was on
    releaseHandlers \* history: handlers registered for the last release event

state == <<currentIndex, indexIsNaN, isDragging, startX, currentX, dragOffset>>
history == <<lastEvent, indexAtStart, lastDiff, viaDocument, navBase, navCount,
             lastArg, releaseHandlers>>
vars == <<component, totalImages, phase, currentIndex, indexIsNaN, isDragging,
          startX, currentX, dragOffset, listeners, lastEvent, indexAtStart,
          lastDiff, viaDocument, navBase, navCount, lastArg, releaseHandlers>>

\* ------------------------------------------------------------- arithmetic
Abs(x) == IF x < 0 THEN -x ELSE x

\* JavaScript's % on integers, divisor > 0: the result has the sign of the
\* dividend (truncated division), unlike the mathematical modulo.
JSRem(a, b) == IF a >= 0 THEN a % b ELSE -((-a) % b)

\* Math.round(x / s) for integers x and s > 0: the nearest integer, ties
\* towards +Infinity, i.e. floor(x/s + 1/2).
MathRound(x, s) == (2 * x + s) \div (2 * s)

\* The index update without the wrap-around.
offsetImageNoWrap(prevIndex, offset, n) == prevIndex + offset

\* ------------------------------------------------------------ index updates
\* The functional updater of offsetImage, for totalImages > 0:
\*   (prevIndex) => (prevIndex + offset + totalImages) % totalImages
offsetImage(prevIndex, offset, n) == JSRem(prevIndex + offset + n, n)

\* x % totalImages is NaN when totalImages = 0, and NaN stays NaN.
remainderIsNaN(nan, n) == nan \/ n = 0

\* nextImage / prevImage of the Threshold component: the closure's isDragging
\* guards the update.
nextImage(prevIndex, n, dragging) ==
    IF ~dragging THEN JSRem(prevIndex + 1, n) ELSE prevIndex

prevImage(prevIndex, n, dragging) ==
    IF ~dragging THEN JSRem(prevIndex - 1 + n, n) ELSE prevIndex

\* A thresholdCommit that forgets the threshold and updates the index itself.
thresholdCommitAnyDrag(prevIndex, diff, n, dragging) ==
    IF diff > 0 THEN JSRem(prevIndex - 1 + n, n)
    ELSE IF diff < 0 THEN JSRem(prevIndex + 1, n)
    ELSE prevIndex


\* The index handleEnd of the Threshold component leaves: it calls prevImage
\* or nextImage of the same render, whose isDragging is the one handleEnd
\* itself has just tested.
thresholdCommit(prevIndex, diff, n, dragging) ==
    IF Abs(diff) > threshold
    THEN IF diff > 0
         THEN prevImage(prevIndex, n, dragging)
         ELSE nextImage(prevIndex, n, dragging)
    ELSE prevIndex

\* The index handleEnd of the continuous components leaves.
continuousCommit(prevIndex, diff, n) ==
    offsetImage(prevIndex, -MathRound(diff, SENSITIVITY), n)

\* Buttons that stay enabled during a drag.
buttonAlwaysEnabled(dragging) == TRUE


\* The previous / next buttons carry disabled={isDragging}: a disabled button
\* dispatches no click.
buttonEnabled(dragging) == ~dragging

\* The guard of the item click with the drag test inverted.
clickSelectsWhileDragging(index, idx, dragging) == index # idx /\ dragging

\* The item's onClick: index !== currentIndex && !isDragging.
clickSelects(index, idx, dragging) == index # idx /\ ~dragging

\* ------------------------------------------------------------------ layout
\* getImageStyle of the continuous components, every offset multiplied by
\* SENSITIVITY:
\*   indexOffset = index - currentIndex
\*   dragOffset  = (currentX - startX) / SENSITIVITY
\*   offset      = (indexOffset + dragOffset + totalImages) % totalImages
offsetScaled(index, idx, sx, cx, n) ==
    JSRem(SENSITIVITY * (index - idx) + (cx - sx) + SENSITIVITY * n,
          SENSITIVITY * n)

\* An adjustedOffset that wraps at >= totalImages / 2 instead of >.
adjustedOffsetWrapsAtHalf(index, idx, sx, cx, n) ==
    LET offset == offsetScaled(index, idx, sx, cx, n)
    IN  IF 2 * offset >= SENSITIVITY * n
        THEN offset - SENSITIVITY * n
        ELSE offset


\*   adjustedOffset = offset > totalImages / 2 ? offset - totalImages : offset
adjustedOffsetScaled(index, idx, sx, cx, n) ==
    LET offset == offsetScaled(index, idx, sx, cx, n)
    IN  IF 2 * offset > SENSITIVITY * n
        THEN offset - SENSITIVITY * n
        ELSE offset

\* getImageStyle of the Threshold component, before the drag is added:
\*   offset = (index - currentIndex + totalImages) % totalImages
\*   adjustedOffset = offset > totalImages / 2 ? offset - totalImages : offset
thresholdAdjustedOffset(index, idx, n) ==
    LET offset == JSRem(index - idx + n, n)
    IN  IF 2 * offset > n THEN offset - n ELSE offset

\*   finalOffset = adjustedOffset + dragOffset / 100, multiplied by 100.
finalOffsetScaled(index, idx, n, dOff) ==
    100 * thresholdAdjustedOffset(index, idx, n) + dOff


\* The scale of the threshold version in thousandths, for |finalOffset| in
\* hundredths, with the third segment starting above the second one's end.
piecewiseScaleRaisedTail(a100) ==
    IF a100 = 0 THEN 1000
    ELSE IF a100 <= 100 THEN 1000 - 3 * a100
    ELSE IF a100 <= 200 THEN 700 - 2 * (a100 - 100)
    ELSE 600 - (a100 - 200)

\* The scale of the threshold version in thousandths, for |finalOffset| in
\* hundredths: 1, 1 - 0.3 a, 0.7 - 0.2 (a - 1), 0.5 - 0.1 (a - 2).
piecewiseScale(a100) ==
    IF a100 = 0 THEN 1000
    ELSE IF a100 <= 100 THEN 1000 - 3 * a100
    ELSE IF a100 <= 200 THEN 700 - 2 * (a100 - 100)
    ELSE 500 - (a100 - 200)

\* The argument -x*x/(2*spread) of Math.exp as a fraction, for x scaled by
\* SENSITIVITY and spread in thousandths (numerator and denominator both
\* divided by 1000).
gaussianExponent(xScaled, spread) ==
    [num |-> -(xScaled * xScaled),
     den |-> 2 * spread * ((SENSITIVITY * SENSITIVITY) \div 1000)]

\* a <= b for two fractions of the same denominator.
fractionLeq(a, b) ==
    IF a.den > 0 THEN a.num <= b.num ELSE b.num <= a.num

\* gaussian(x, min, max, spread) <= gaussian(y, min, max, spread). Math.exp
\* is increasing, so the order of the two values is the order of the
\* exponents when max > min, and the reverse when max < min.
gaussianLeq(xScaled, yScaled, min, max, spread) ==
    LET ex == gaussianExponent(xScaled, spread)
        ey == gaussianExponent(yScaled, spread)
    IN  IF max > min THEN fractionLeq(ex, ey)
        ELSE IF max = min THEN TRUE
        ELSE fractionLeq(ey, ex)

\* maxOffset = Math.max(Math.floor(totalImages / 2) - 2) in Continuous (Math.max
\* of one argument is that argument); the constant MAX_OFFSET in ContinuousV1.
maxOffset(comp, n) == IF comp = Continuous THEN (n \div 2) - 2 ELSE MAX_OFFSET

\* opacity = Math.max(0, 1 - (absOffset - 1) / maxOffset), as the fraction
\* num / den with den > 0, or as Infinity or NaN when maxOffset = 0
\* (x / 0 is -Infinity, NaN or +Infinity, and Math.max(0, NaN) is NaN).
opacity(absScaled, m) ==
    IF m = 0
    THEN IF absScaled < SENSITIVITY
         THEN [kind |-> "Infinity", num |-> 0, den |-> 1]
         ELSE IF absScaled = SENSITIVITY
              THEN [kind |-> "NaN", num |-> 0, den |-> 1]
              ELSE [kind |-> "number", num |-> 0, den |-> 1]
    ELSE LET raw == IF m > 0
                    THEN SENSITIVITY * m - (absScaled - SENSITIVITY)
                    ELSE (absScaled - SENSITIVITY) - SENSITIVITY * m
         IN  [kind |-> "number",
              num |-> IF raw < 0 THEN 0 ELSE raw,
              den |-> SENSITIVITY * Abs(m)]

\* The opacity getImageStyle(index) returns in the current state.
itemOpacity(index) ==
    opacity(Abs(adjustedOffsetScaled(index, currentIndex, startX, currentX,
                                     totalImages)),
            maxOffset(component, totalImages))


\* ------------------------------------------------------- render and effects
\* The render of the Continuous component reads images[currentIndex].caption,
\* which throws when currentIndex is no index of images; the other two
\* components read no item by currentIndex.
renderThrows(comp, n, idx, nan) ==
    comp = Continuous /\ (nan \/ idx \notin 0..(n - 1))

\* An effect without its cleanup: listeners once added are never removed.
useEffectNoCleanup(attached, dragging, alive) == attached \/ (alive /\ dragging)


\* The effect on [isDragging, handleMove, handleEnd]: the previous effect's
\* cleanup removes the document listeners, then the effect adds them again
\* when isDragging; on unmount only the cleanup runs.
useEffect(attached, dragging, alive) == alive /\ dragging

\* A state update followed by the re-render and the effect flush.
Commit(idx, nan, drag, sx, cx, dOff) ==
    /\ currentIndex' = idx
    /\ indexIsNaN' = nan
    /\ isDragging' = drag
    /\ startX' = sx
    /\ currentX' = cx
    /\ dragOffset' = dOff
    /\ phase' = IF renderThrows(component, totalImages, idx, nan)
                THEN "crashed" ELSE "mounted"
    /\ listeners' = useEffect(listeners, drag,
                              ~renderThrows(component, totalImages, idx, nan))
    /\ UNCHANGED <<component, totalImages>>

\* ---------------------------------------------------------------- handlers
handleStart(clientX) ==
    /\ Commit(currentIndex, indexIsNaN, TRUE, clientX, clientX, dragOffset)
    /\ lastEvent' = "start"
    /\ indexAtStart' = currentIndex
    /\ lastDiff' = 0

\* handleMove without the test of isDragging.
handleMoveUnguarded(clientX) ==
    /\ Commit(currentIndex, indexIsNaN, isDragging, startX, clientX,
              IF component = Threshold
              THEN (clientX - startX) \div 2
              ELSE dragOffset)
    /\ lastEvent' = IF isDragging THEN "move" ELSE "move_idle"
    /\ lastDiff' = 0
    /\ UNCHANGED indexAtStart

handleMove(clientX) ==
    IF ~isDragging
    THEN /\ UNCHANGED <<component, totalImages, phase, state, listeners>>
         /\ lastEvent' = "move_idle"
         /\ lastDiff' = 0
         /\ UNCHANGED indexAtStart
    ELSE /\ Commit(currentIndex, indexIsNaN, isDragging, startX, clientX,
                   IF component = Threshold
                   THEN (clientX - startX) \div 2
                   ELSE dragOffset)
         /\ lastEvent' = "move"
         /\ lastDiff' = 0
         /\ UNCHANGED indexAtStart

handleEnd ==
    IF ~isDragging
    THEN /\ UNCHANGED <<component, totalImages, phase, state, listeners>>
         /\ lastEvent' = "end_idle"
         /\ lastDiff' = 0
         /\ UNCHANGED indexAtStart
    ELSE /\ IF component = Threshold
            THEN Commit(IF totalImages = 0 THEN currentIndex
                        ELSE thresholdCommit(currentIndex, currentX - startX,
                                             totalImages, isDragging),
                        indexIsNaN, FALSE, 0, 0, 0)
            ELSE Commit(IF totalImages = 0 THEN currentIndex
                        ELSE continuousCommit(currentIndex, currentX - startX,
                                              totalImages),
                        remainderIsNaN(indexIsNaN, totalImages),
                        FALSE, 0, 0, dragOffset)
         /\ lastEvent' = "end"
         /\ lastDiff' = currentX - startX
         /\ UNCHANGED indexAtStart

\* ------------------------------------------------------ history bookkeeping
\* An event other than next / previous ends the run of navigation requests.
NavReset == navCount' = 0 /\ navBase' = currentIndex'

\* A next (dir = 1) or previous (dir = -1) request extends the run it
\* continues, or starts a new one.
NavStep(dir) ==
    IF navCount * dir >= 0 /\ Abs(navCount) < MaxK
    THEN navBase' = navBase /\ navCount' = navCount + dir
    ELSE navBase' = currentIndex /\ navCount' = dir

NoClick == lastArg' = 0

NoRelease == releaseHandlers' = 0

\* ------------------------------------------------------------------ events
\* First render of the component.
Mount ==
    /\ phase = "unmounted"
    /\ Commit(0, FALSE, FALSE, 0, 0, 0)
    /\ lastEvent' = "mount"
    /\ indexAtStart' = 0
    /\ lastDiff' = 0
    /\ viaDocument' = FALSE
    /\ NavReset /\ NoClick /\ NoRelease

\* React unmounts the component: the state is dropped, the effect's cleanup runs.
Unmount ==
    /\ phase = "mounted"
    /\ phase' = "unmounted"
    /\ currentIndex' = 0
    /\ indexIsNaN' = FALSE
    /\ isDragging' = FALSE
    /\ startX' = 0
    /\ currentX' = 0
    /\ dragOffset' = 0
    /\ listeners' = useEffect(listeners, FALSE, FALSE)
    /\ lastEvent' = "unmount"
    /\ indexAtStart' = 0
    /\ lastDiff' = 0
    /\ viaDocument' = FALSE
    /\ NavReset /\ NoClick /\ NoRelease
    /\ UNCHANGED <<component, totalImages>>

\* onMouseDown of the carousel container.
MouseDown ==
    /\ phase = "mounted"
    /\ \E x \in StartPositions : handleStart(x)
    /\ viaDocument' = FALSE
    /\ NavReset /\ NoClick /\ NoRelease

\* onTouchStart of the carousel container.
TouchStart ==
    /\ phase = "mounted"
    /\ \E x \in StartPositions : handleStart(x)
    /\ viaDocument' = FALSE
    /\ NavReset /\ NoClick /\ NoRelease

\* A mousemove: over the container (onMouseMove, and the document listener
\* when attached: both call handleMove with the same clientX), or elsewhere
\* on the page (the document listener alone).
MouseMove ==
    /\ phase = "mounted"
    /\ \E x \in Positions, inside \in BOOLEAN :
          /\ inside \/ listeners
          /\ handleMove(x)
          /\ viaDocument' = ~inside
    /\ NavReset /\ NoClick /\ NoRelease

\* onTouchMove of the container (a touch keeps its start target).
TouchMove ==
    /\ phase = "mounted"
    /\ \E x \in Positions : handleMove(x)
    /\ viaDocument' = FALSE
    /\ NavReset /\ NoClick /\ NoRelease

\* The index one call of handleEnd leaves (totalImages > 0).
releaseIndex(comp, prevIndex, diff, n, dragging) ==
    IF comp = Threshold
    THEN thresholdCommit(prevIndex, diff, n, dragging)
    ELSE continuousCommit(prevIndex, diff, n)

\* A mouseup over the container is dispatched to the container's onMouseUp
\* first; React then re-renders and flushes the effects before the event
\* reaches the listeners added on document. handleGlobalMouseUp runs for the
\* same event only if it is still attached after that flush.
staleListenerRuns(inside, attached, alive) ==
    inside /\ attached /\ useEffect(attached, FALSE, alive)

\* handleEnd called a second time for one release, by handleGlobalMouseUp
\* with the closure of the dragging render: isDragging is true in it, and the
\* functional updater of offsetImage applies to the index the first call left.
handleEndTwice ==
    LET diff == currentX - startX
        first == IF totalImages = 0 THEN currentIndex
                 ELSE releaseIndex(component, currentIndex, diff, totalImages,
                                   isDragging)
        second == IF totalImages = 0 THEN currentIndex
                  ELSE releaseIndex(component, first, diff, totalImages,
                                    isDragging)
    IN  /\ Commit(second,
                  IF component = Threshold THEN indexIsNaN
                  ELSE remainderIsNaN(indexIsNaN, totalImages),
                  FALSE, 0, 0, IF component = Threshold THEN 0 ELSE dragOffset)
        /\ lastEvent' = "end"
        /\ lastDiff' = diff
        /\ UNCHANGED indexAtStart

\* A mouseup: over the container (onMouseUp, then the document listener if it
\* is still attached), or elsewhere on the page (the document listener alone).
MouseUp ==
    /\ phase = "mounted"
    /\ \E inside \in BOOLEAN :
          /\ inside \/ listeners
          /\ IF /\ isDragging
                /\ totalImages > 0
                /\ staleListenerRuns(
                      inside, listeners,
                      ~renderThrows(component, totalImages,
                                    releaseIndex(component, currentIndex,
                                                 currentX - startX,
                                                 totalImages, isDragging),
                                    indexIsNaN))
             THEN handleEndTwice
             ELSE handleEnd
          /\ viaDocument' = ~inside
          /\ releaseHandlers' =
                (IF inside THEN 1 ELSE 0) + (IF listeners THEN 1 ELSE 0)
    /\ NavReset /\ NoClick

\* onTouchEnd of the container.
TouchEnd ==
    /\ phase = "mounted"
    /\ handleEnd
    /\ viaDocument' = FALSE
    /\ releaseHandlers' = 1
    /\ NavReset /\ NoClick

\* Click on the "Next image" button.
NextButton ==
    /\ phase = "mounted"
    /\ buttonEnabled(isDragging)
    /\ IF component = Threshold
       THEN Commit(IF totalImages = 0 THEN currentIndex
                   ELSE nextImage(currentIndex, totalImages, isDragging),
                   IF isDragging THEN indexIsNaN
                   ELSE remainderIsNaN(indexIsNaN, totalImages),
                   isDragging, startX, currentX, dragOffset)
       ELSE Commit(IF totalImages = 0 THEN currentIndex
                   ELSE offsetImage(currentIndex, 1, totalImages),
                   remainderIsNaN(indexIsNaN, totalImages),
                   isDragging, startX, currentX, dragOffset)
    /\ lastEvent' = "next"
    /\ lastDiff' = 0
    /\ viaDocument' = FALSE
    /\ UNCHANGED indexAtStart
    /\ NavStep(1) /\ NoClick /\ NoRelease

\* Click on the "Previous image" button.
PrevButton ==
    /\ phase = "mounted"
    /\ buttonEnabled(isDragging)
    /\ IF component = Threshold
       THEN Commit(IF totalImages = 0 THEN currentIndex
                   ELSE prevImage(currentIndex, totalImages, isDragging),
                   IF isDragging THEN indexIsNaN
                   ELSE remainderIsNaN(indexIsNaN, totalImages),
                   isDragging, startX, currentX, dragOffset)
       ELSE Commit(IF totalImages = 0 THEN currentIndex
                   ELSE offsetImage(currentIndex, -1, totalImages),
                   remainderIsNaN(indexIsNaN, totalImages),
                   isDragging, startX, currentX, dragOffset)
    /\ lastEvent' = "prev"
    /\ lastDiff' = 0
    /\ viaDocument' = FALSE
    /\ UNCHANGED indexAtStart
    /\ NavStep(-1) /\ NoClick /\ NoRelease

\* An item click that also ends the gesture in progress.
ItemClickEndsDrag ==
    /\ phase = "mounted"
    /\ \E index \in 0..(totalImages - 1) :
          /\ Commit(IF clickSelects(index, currentIndex, isDragging)
                    THEN index ELSE currentIndex,
                    indexIsNaN, FALSE, 0, 0, dragOffset)
          /\ lastArg' = index
          /\ lastEvent' = IF index = currentIndex THEN "click_current"
                           ELSE "click"
    /\ lastDiff' = 0
    /\ viaDocument' = FALSE
    /\ UNCHANGED indexAtStart
    /\ NavReset /\ NoRelease

\* Click on item `index` of the carousel.
ItemClick ==
    /\ phase = "mounted"
    /\ \E index \in 0..(totalImages - 1) :
          /\ IF clickSelects(index, currentIndex, isDragging)
             THEN Commit(index, FALSE, isDragging, startX, currentX, dragOffset)
             ELSE UNCHANGED <<component, totalImages, phase, state, listeners>>
          /\ lastArg' = index
          /\ lastEvent' = IF index = currentIndex THEN "click_current"
                           ELSE "click"
    /\ lastDiff' = 0
    /\ viaDocument' = FALSE
    /\ UNCHANGED indexAtStart
    /\ NavReset /\ NoRelease

\* ----------------------------------------------------------- specification
Init ==
    /\ component \in Components
    /\ totalImages \in 0..MaxN
    /\ phase = "unmounted"
    /\ currentIndex = 0
    /\ indexIsNaN = FALSE
    /\ isDragging = FALSE
    /\ startX = 0
    /\ currentX = 0
    /\ dragOffset = 0
    /\ listeners = FALSE
    /\ lastEvent = "none"
    /\ indexAtStart = 0
    /\ lastDiff = 0
    /\ viaDocument = FALSE
    /\ navBase = 0
    /\ navCount = 0
    /\ lastArg = 0
    /\ releaseHandlers = 0

Next ==
    \/ Mount
    \/ Unmount
    \/ MouseDown
    \/ TouchStart
    \/ MouseMove
    \/ TouchMove
    \/ MouseUp
    \/ TouchEnd
    \/ NextButton
    \/ PrevButton
    \/ ItemClick

Spec == Init /\ [][Next]_vars

\* The widget under discrete navigation alone (buttons and item clicks, no
\* pointer drag), with up to MaxNavN items.
InitNav ==
    /\ component \in Components
    /\ totalImages \in 1..MaxNavN
    /\ phase = "unmounted"
    /\ currentIndex = 0
    /\ indexIsNaN = FALSE
    /\ isDragging = FALSE
    /\ startX = 0
    /\ currentX = 0
    /\ dragOffset = 0
    /\ listeners = FALSE
    /\ lastEvent = "none"
    /\ indexAtStart = 0
    /\ lastDiff = 0
    /\ viaDocument = FALSE
    /\ navBase = 0
    /\ navCount = 0
    /\ lastArg = 0
    /\ releaseHandlers = 0

NextNav ==
    \/ Mount
    \/ Unmount
    \/ NextButton
    \/ PrevButton
    \/ ItemClick

SpecNav == InitNav /\ [][NextNav]_vars

TypeOK ==
    /\ component \in Components
    /\ totalImages \in 0..MaxN
    /\ phase \in {"unmounted", "mounted", "crashed"}
    /\ currentIndex \in Int
    /\ indexIsNaN \in BOOLEAN
    /\ isDragging \in BOOLEAN
    /\ startX \in Positions
    /\ currentX \in Positions
    /\ listeners \in BOOLEAN

\* ================================================================== claims
Mod(a, n) == a % n

\* C1: in every state reached from mount with n >= 1 items, by any sequence
\* of pointer, button and click events, currentIndex is an integer in [0, n),
\* so that images[currentIndex] exists.
C1_IndexAlwaysValid ==
    (phase # "unmounted" /\ totalImages >= 1)
        => (~indexIsNaN /\ currentIndex \in 0..(totalImages - 1))

\* C2: applied to an index c in [0, n), n >= 1, the offsetImage updater
\* returns an index in [0, n) for every integer delta (the delta of a drag
\* release, of the next and of the previous button).
C2_OffsetImageInRange ==
    [][(/\ phase = "mounted"
        /\ component # Threshold
        /\ totalImages >= 1
        /\ ~indexIsNaN
        /\ currentIndex \in 0..(totalImages - 1)
        /\ lastEvent' \in {"end", "next", "prev"})
       => currentIndex' \in 0..(totalImages - 1)]_vars

\* C3: in the Threshold component a drag of net distance beyond 50 px moves
\* currentIndex by exactly one, modulo n: to the previous item when dragged
\* to the right, to the next item when dragged to the left.
C3_ThresholdDragMovesByOne ==
    (/\ component = Threshold
     /\ lastEvent = "end"
     /\ totalImages >= 1
     /\ Abs(lastDiff) > threshold)
        => currentIndex = IF lastDiff > 0
                          THEN Mod(indexAtStart - 1, totalImages)
                          ELSE Mod(indexAtStart + 1, totalImages)

\* C4: in the Threshold component a drag of net distance at most 50 px leaves
\* currentIndex as it was when the drag started, and the widget Idle.
C4_ThresholdShortDragSnapsBack ==
    (/\ component = Threshold
     /\ lastEvent = "end"
     /\ Abs(lastDiff) <= threshold)
        => (/\ currentIndex = indexAtStart
            /\ ~isDragging
            /\ phase = "mounted")

\* C4 witness: a drag of 40 px was released in the Threshold component with
\* several items, and the index is the one the drag started at.
C4_Witness ==
    /\ component = Threshold
    /\ lastEvent = "end"
    /\ lastDiff = 40
    /\ totalImages >= 2
    /\ currentIndex = indexAtStart
    /\ ~isDragging

\* C5: in the Continuous component the release of a drag of net distance D
\* from index c leaves currentIndex = (c + delta) mod n with
\* delta = -round(D / 200), and the delta of -D is the opposite of the delta
\* of D.
C5_ContinuousCommitWrapsSymmetric ==
    (/\ component = Continuous
     /\ lastEvent = "end"
     /\ totalImages >= 1)
        => (/\ ~indexIsNaN
            /\ currentIndex
                 = Mod(indexAtStart - MathRound(lastDiff, SENSITIVITY),
                       totalImages)
            /\ MathRound(-lastDiff, SENSITIVITY)
                 = -MathRound(lastDiff, SENSITIVITY))

\* C6: a drag released at the position it started at leaves currentIndex as
\* it was when the drag started, in every component.
C6_ZeroDragKeepsIndex ==
    (/\ lastEvent = "end"
     /\ lastDiff = 0
     /\ totalImages >= 1)
        => (~indexIsNaN /\ currentIndex = indexAtStart)

\* C7: while isDragging, no event changes currentIndex except the release of
\* the drag (or the unmount of the widget): the buttons and the item click
\* are disabled.
C7_NoNavigationWhileDragging ==
    [][isDragging
       => \/ lastEvent' = "end"
          \/ phase' = "unmounted"
          \/ (currentIndex' = currentIndex /\ indexIsNaN' = indexIsNaN)]_vars

\* C7 witness: an item other than the current one was clicked during a drag.
C7_Witness ==
    /\ phase = "mounted"
    /\ isDragging
    /\ lastEvent = "click"
    /\ totalImages >= 2
    /\ currentIndex = indexAtStart

\* C8: the document listeners are attached only while the widget is mounted
\* and isDragging: Idle, unmounted or crashed, none is attached.
C8_ListenersOnlyWhileDragging ==
    listeners => (phase = "mounted" /\ isDragging)

\* C8 witness: a drag was released outside the container (only the document
\* mouseup listener ran handleEnd) and the listeners are detached.
C8_Witness ==
    /\ phase = "mounted"
    /\ lastEvent = "end"
    /\ viaDocument
    /\ ~isDragging
    /\ ~listeners

\* C9: with an empty image list the widget never reads images[currentIndex]
\* (the render does not throw) and never takes a remainder by zero.
C9_EmptyListGuarded ==
    totalImages = 0 => (phase # "crashed" /\ ~indexIsNaN)

\* C10: in the Continuous component every item's opacity is a number in
\* [0, 1], is 1 for an item of signed offset 0, and does not increase with
\* |signedOffset|.
C10_OpacityInUnitInterval ==
    (phase = "mounted" /\ component = Continuous /\ totalImages >= 1)
        => \A i \in 0..(totalImages - 1) :
              LET a == adjustedOffsetScaled(i, currentIndex, startX, currentX,
                                            totalImages)
                  o == itemOpacity(i)
              IN  /\ o.kind = "number"
                  /\ 0 <= o.num
                  /\ o.num <= o.den
                  /\ (a = 0 => o.num = o.den)
                  /\ \A j \in 0..(totalImages - 1) :
                        LET b == adjustedOffsetScaled(j, currentIndex, startX,
                                                      currentX, totalImages)
                            q == itemOpacity(j)
                        IN  Abs(a) <= Abs(b) => q.num <= o.num

\* The signed offset getImageStyle gives item i in the current state, times
\* SENSITIVITY (continuous components).
signedOffsetNow(i) ==
    adjustedOffsetScaled(i, currentIndex, startX, currentX, totalImages)

\* C11: during a drag, of either direction and any length, the signed offset
\* of every item lies in (-n/2, n/2] (continuous components, index in [0, n)).
C11_SignedOffsetInRangeWhileDragging ==
    (/\ phase = "mounted"
     /\ isDragging
     /\ component # Threshold
     /\ totalImages >= 1
     /\ currentIndex \in 0..(totalImages - 1))
        => \A i \in 0..(totalImages - 1) :
              /\ -(SENSITIVITY * totalImages) < 2 * signedOffsetNow(i)
              /\ 2 * signedOffsetNow(i) <= SENSITIVITY * totalImages

\* C12: with no drag displacement (d = 0), for c in [0, n) the signed offset
\* of every item is in (-n/2, n/2] and that of item c is 0, in the continuous
\* components and in the Threshold component.
C12_SignedOffsetAtRest ==
    (/\ phase = "mounted"
     /\ totalImages >= 1
     /\ ~indexIsNaN
     /\ currentIndex \in 0..(totalImages - 1)
     /\ currentX = startX)
        => \A i \in 0..(totalImages - 1) :
              IF component = Threshold
              THEN LET a == thresholdAdjustedOffset(i, currentIndex, totalImages)
                   IN  /\ -totalImages < 2 * a
                       /\ 2 * a <= totalImages
                       /\ (i = currentIndex => a = 0)
              ELSE /\ -(SENSITIVITY * totalImages) < 2 * signedOffsetNow(i)
                   /\ 2 * signedOffsetNow(i) <= SENSITIVITY * totalImages
                   /\ (i = currentIndex => signedOffsetNow(i) = 0)

\* C12 witness: at rest with an even number of items, away from index 0, an
\* item sits exactly half-way round (offset n/2) and another at a negative
\* offset.
C12_Witness ==
    /\ phase = "mounted"
    /\ component = Continuous
    /\ ~isDragging
    /\ totalImages = 6
    /\ currentIndex = 4
    /\ 2 * signedOffsetNow(1) = SENSITIVITY * totalImages
    /\ signedOffsetNow(2) < 0

\* The items getImageStyle places at signed offset 0 in the current state.
centeredItems ==
    {i \in 0..(totalImages - 1) :
        IF component = Threshold
        THEN finalOffsetScaled(i, currentIndex, totalImages, dragOffset) = 0
        ELSE signedOffsetNow(i) = 0}

\* C13: in every state with isDragging = false (n >= 1) both drag positions
\* are zero and exactly one item has signed offset 0: the item at
\* currentIndex.
C13_OneCenteredItemAtRest ==
    (phase # "unmounted" /\ totalImages >= 1 /\ ~isDragging)
        => (/\ startX = 0
            /\ currentX = 0
            /\ ~indexIsNaN
            /\ centeredItems = {currentIndex})

\* C14: from an idle state at index c of n items, k consecutive next requests
\* leave currentIndex = (c + k) mod n and k consecutive previous requests
\* leave (c - k) mod n (navCount is +k or -k, navBase is c).
C14_ConsecutiveNavigationWraps ==
    (/\ phase = "mounted"
     /\ lastEvent \in {"next", "prev"}
     /\ navBase \in 0..(totalImages - 1))
        => (/\ ~indexIsNaN
            /\ ~isDragging
            /\ currentIndex = Mod(navBase + navCount, totalImages))

\* C14 witness: 10 items, seven next requests from index 3 end on index 0.
C14_Witness ==
    /\ phase = "mounted"
    /\ totalImages = 10
    /\ lastEvent = "next"
    /\ navBase = 3
    /\ navCount = 7
    /\ currentIndex = 0
\* The signed offset of item i in the current render, of either version.
renderedOffset(i) ==
    IF component = Threshold
    THEN finalOffsetScaled(i, currentIndex, totalImages, dragOffset)
    ELSE signedOffsetNow(i)

\* The scale at signed offset x is at most the scale at signed offset y, in
\* the version that is mounted.
scaleLeq(x, y) ==
    IF component = Threshold
    THEN piecewiseScale(Abs(x)) <= piecewiseScale(Abs(y))
    ELSE gaussianLeq(x, y, MIN_SCALE, MAX_SCALE, SCALE_SPREAD)

\* C15: in every render, idle or dragging, the depth scale is non-increasing
\* in the absolute signed offset, and an item has the maximal scale (that of
\* offset 0) exactly when its signed offset is 0; for the piecewise-linear
\* scale and for the Gaussian one.
C15_ScalePeaksAtCenter ==
    (phase = "mounted" /\ totalImages >= 1)
        => LET items == 0..(totalImages - 1)
               off == [i \in items |-> renderedOffset(i)]
           IN  \A i \in items :
                  /\ \A j \in items :
                        Abs(off[i]) <= Abs(off[j]) => scaleLeq(off[j], off[i])
                  /\ scaleLeq(off[i], 0)
                  /\ scaleLeq(0, off[i]) <=> off[i] = 0

\* C15 witness: a render of the threshold version during a drag in which
\* items lie on all three sloped segments of the scale, none at offset 0.
C15_Witness ==
    /\ phase = "mounted"
    /\ component = Threshold
    /\ isDragging
    /\ \A i \in 0..(totalImages - 1) : renderedOffset(i) # 0
    /\ \E i, j, k \in 0..(totalImages - 1) :
          /\ Abs(renderedOffset(i)) < 100
          /\ Abs(renderedOffset(j)) > 100 /\ Abs(renderedOffset(j)) < 200
          /\ Abs(renderedOffset(k)) > 200

\* A render of a continuous version during a drag with items at fractional
\* offsets on both sides of the center.
C15_GaussianCase ==
    /\ phase = "mounted"
    /\ component = Continuous
    /\ isDragging
    /\ \E i, j \in 0..(totalImages - 1) :
          /\ renderedOffset(i) > 0 /\ renderedOffset(i) < SENSITIVITY
          /\ renderedOffset(j) < 0 /\ renderedOffset(j) > -SENSITIVITY
\* C16: a click on the item that is already the current one changes nothing
\* of the widget's state, idle or dragging.
C16_ClickOnCurrentIsNoOp ==
    [][lastEvent' = "click_current"
        => UNCHANGED <<totalImages, phase, state, listeners>>]_vars

\* C16 witness: the current item of an idle widget was clicked.
C16_Witness ==
    /\ phase = "mounted"
    /\ lastEvent = "click_current"
    /\ ~isDragging
    /\ totalImages >= 2
    /\ lastArg = currentIndex

\* C17: in an idle widget, a click on an item i other than the current one
\* sets currentIndex to i and changes neither isDragging nor the drag
\* positions.
C17_IdleClickSelectsItem ==
    [][(phase = "mounted" /\ ~isDragging /\ lastEvent' = "click")
        => (/\ lastArg' # currentIndex
            /\ currentIndex' = lastArg'
            /\ ~indexIsNaN'
            /\ isDragging' = isDragging
            /\ startX' = startX
            /\ currentX' = currentX)]_vars

\* C17 witness: an item other than the current one of an idle widget was
\* clicked and is now the current one.
C17_Witness ==
    /\ phase = "mounted"
    /\ lastEvent = "click"
    /\ ~isDragging
    /\ totalImages >= 3
    /\ lastArg = currentIndex
    /\ currentIndex > 0
distanceBeforeRelease(i) ==
    Abs(adjustedOffsetScaled(i, indexAtStart, 0, lastDiff, totalImages))

\* C19: in the continuous versions the index committed by a release is the
\* index of an item, and no item was nearer to the center than it in the
\* layout rendered just before the release (drags to the left and to the
\* right, odd multiples of SENSITIVITY / 2 included).
C19_CommitMatchesLayout ==
    (/\ phase # "unmounted"
     /\ component # Threshold
     /\ lastEvent = "end"
     /\ totalImages >= 1
     /\ indexAtStart \in 0..(totalImages - 1))
        => (/\ currentIndex \in 0..(totalImages - 1)
            /\ \A j \in 0..(totalImages - 1) :
                  distanceBeforeRelease(currentIndex)
                      <= distanceBeforeRelease(j))
\* C20: a pointer move during a drag changes only currentX (and, in the
\* threshold version, the dragOffset derived from it): currentIndex,
\* isDragging and startX keep their values; a pointer move or a pointer
\* release received while idle changes nothing.
C20_MoveChangesOnlyCurrentX ==
    [][/\ lastEvent' = "move"
            => /\ isDragging
               /\ UNCHANGED <<totalImages, phase, currentIndex, indexIsNaN,
                              isDragging, startX, listeners>>
               /\ component # Threshold => UNCHANGED dragOffset
       /\ lastEvent' \in {"move_idle", "end_idle"}
            => /\ ~isDragging
               /\ UNCHANGED <<totalImages, phase, state, listeners>>]_vars

\* C20 witness: a pointer move during a drag has moved currentX away from
\* startX.
C20_Witness ==
    /\ phase = "mounted"
    /\ lastEvent = "move"
    /\ isDragging
    /\ currentX # startX
    /\ currentIndex = indexAtStart

\* A pointer release reached an idle widget.
C20_IdleCase ==
    /\ phase = "mounted"
    /\ lastEvent = "end_idle"
    /\ ~isDragging
    /\ startX = 0
    /\ currentX = 0
====
